---- MODULE Spec2Model ----
(***************************************************************************)
(* SalesGodCRM / Smartlead -> HubSpot webhook receiver (integratiom.js).   *)
(*                                                                         *)
(* The two POST handlers are async functions: each runs without            *)
(* interruption from one await to the next, and the handlers of different  *)
(* requests interleave at the awaits.  One action of this module is one    *)
(* such run: from the arrival of the request to the first CRM call, and    *)
(* from the return of a CRM call to the next call or to the response.      *)
(* The CRM (HubSpot) is the environment: a contact store that answers      *)
(* search, create and update, each of which may also fail.                 *)
(***************************************************************************)
EXTENDS Integers, Sequences, FiniteSets, TLC

\* Number of webhook requests delivered in one behaviour.
MaxReq == 2

Requests == 1..MaxReq

(***************************************************************************)
(* JavaScript values.  A string is the sequence of its symbols; the symbol *)
(* " " is the space character, every other symbol stands for a run of      *)
(* non-space characters.  v is the symbol sequence of a string, the digits *)
(* of a number, and the content of the value member of an object           *)
(* { value: ... }.                                                         *)
(***************************************************************************)
undefined == [t |-> "undefined", v |-> <<>>]

null == [t |-> "null", v |-> <<>>]

Str(s) == [t |-> "string", v |-> s]

Num(s) == [t |-> "number", v |-> s]

\* ToBoolean: undefined, null, "" and 0 are falsy.
Truthy(x) ==
    \/ x.t = "string" /\ x.v # <<>>
    \/ x.t = "number" /\ x.v # <<"0">>
    \/ x.t = "object"

\* a || b
Or(a, b) == IF Truthy(a) THEN a ELSE b

\* x?.value : only an object has a value member; a string, a number,
\* null and undefined give undefined.
DotValue(x) == IF x.t = "object" THEN Str(x.v) ELSE undefined

\* A non-empty string.
NonEmptyString(x) == x.t = "string" /\ x.v # <<>>

(***************************************************************************)
(* Webhook bodies (req.body after bodyParser.json()).  Only the members    *)
(* the handlers read are kept: the top level of a SalesGodCRM body, its    *)
(* contact and data sub-objects, and the Smartlead members.  A member that *)
(* is absent from the JSON text reads as undefined.                        *)
(***************************************************************************)
NoObject ==
    [present |-> FALSE, id |-> undefined, email |-> undefined,
     firstName |-> undefined, lastName |-> undefined,
     phoneNumber |-> undefined, company |-> undefined]

Object(id, email, firstName, lastName, phoneNumber, company) ==
    [present |-> TRUE, id |-> id, email |-> email,
     firstName |-> firstName, lastName |-> lastName,
     phoneNumber |-> phoneNumber, company |-> company]

\* o?.f for a sub-object o that may be absent.
Opt(o, f) == IF o.present THEN o[f] ELSE undefined

EmptyBody ==
    [id |-> undefined, email |-> undefined, firstName |-> undefined,
     lastName |-> undefined, phoneNumber |-> undefined, company |-> undefined,
     contact |-> NoObject, data |-> NoObject,
     to_email |-> undefined, to_name |-> undefined,
     sl_lead_email |-> undefined, sl_email_lead_id |-> undefined]

Email1 == Str(<<"lead@example.com">>)

\* testPayload1 of test-webhook.js: everything under data.
TestPayload1 ==
    [EmptyBody EXCEPT !.data =
        Object(Str(<<"sgcrm_1">>), Email1, Str(<<"Test">>), Str(<<"Lead">>),
               Str(<<"+1-555-0123">>), Str(<<"Test", " ", "Company">>))]

\* Flat shape with a top-level id and one name.
FlatWithId ==
    [EmptyBody EXCEPT !.id = Str(<<"sgcrm_7">>), !.email = Email1,
                      !.firstName = Str(<<"Ann">>)]

\* No email anywhere.
NoEmail == [EmptyBody EXCEPT !.firstName = Str(<<"Ann">>)]

\* {"email": 42}: a JSON number where the address is expected.
Email42 == [EmptyBody EXCEPT !.email = Num(<<"42">>)]

JaneMaryDoe ==
    [EmptyBody EXCEPT !.to_email = Email1,
                      !.to_name = Str(<<"Jane", " ", "Mary", " ", "Doe">>),
                      !.sl_email_lead_id = Str(<<"L1">>)]

Solo == [EmptyBody EXCEPT !.sl_lead_email = Email1, !.to_name = Str(<<"Solo">>)]

\* The second email member, and no name.
LeadEmailOnly == [EmptyBody EXCEPT !.sl_lead_email = Email1]

\* No email in either member.
NameOnly == [EmptyBody EXCEPT !.to_name = Str(<<"Jane", " ", "Doe">>)]

\* to_name that is not a string: to_name.split is not a function.
ToNameNumber == [EmptyBody EXCEPT !.to_email = Email1, !.to_name = Num(<<"7">>)]

\* The payloads by name: a request records the name of its payload.
BodyOf(payload) ==
    CASE payload = "testPayload1"  -> TestPayload1
      [] payload = "flatWithId"    -> FlatWithId
      [] payload = "noEmail"       -> NoEmail
      [] payload = "email42"       -> Email42
      [] payload = "janeMaryDoe"   -> JaneMaryDoe
      [] payload = "solo"          -> Solo
      [] payload = "leadEmailOnly" -> LeadEmailOnly
      [] payload = "nameOnly"      -> NameOnly
      [] payload = "toNameNumber"  -> ToNameNumber
      [] OTHER                     -> EmptyBody

Endpoints == {"salesgodscrm", "smartlead"}

\* The payloads delivered to each endpoint.
Payloads(endpoint) ==
    IF endpoint = "salesgodscrm"
    THEN {"testPayload1", "flatWithId", "noEmail", "email42"}
    ELSE {"janeMaryDoe", "leadEmailOnly", "nameOnly", "toNameNumber"}

\* The payloads that senders who may not hold the secret deliver.
OpenPayloads(endpoint) ==
    IF endpoint = "salesgodscrm"
    THEN {"testPayload1", "noEmail"}
    ELSE {"solo", "nameOnly"}

(***************************************************************************)
(* JSON.stringify(req.body): the members in order, absent ones left out,   *)
(* each value with its type (42 and "42" serialize differently).           *)
(***************************************************************************)
Member(name, x) ==
    IF x.t = "undefined" THEN <<>> ELSE <<name, x.t>> \o x.v \o <<",">>

StringifyObject(name, o) ==
    IF ~o.present THEN <<>>
    ELSE <<name, "{">> \o Member("id", o.id) \o Member("email", o.email)
         \o Member("firstName", o.firstName) \o Member("lastName", o.lastName)
         \o Member("phoneNumber", o.phoneNumber) \o Member("company", o.company)
         \o <<"}">>

Stringify(body) ==
    <<"{">> \o Member("id", body.id) \o Member("email", body.email)
    \o Member("firstName", body.firstName) \o Member("lastName", body.lastName)
    \o Member("phoneNumber", body.phoneNumber) \o Member("company", body.company)
    \o StringifyObject("contact", body.contact)
    \o StringifyObject("data", body.data)
    \o Member("to_email", body.to_email) \o Member("to_name", body.to_name)
    \o Member("sl_lead_email", body.sl_lead_email)
    \o Member("sl_email_lead_id", body.sl_email_lead_id) \o <<"}">>

(***************************************************************************)
(* crypto.createHmac('sha256', key).update(payload).digest('hex'): the     *)
(* digest is taken collision-free, so it is the pair of key and message    *)
(* written as one string.                                                  *)
(***************************************************************************)
Hmac(key, payload) == Str(<<"hmac-sha256", key>> \o payload)

\* The configured secret, and "" for WEBHOOK_SECRET unset (both falsy).
Secrets == {"", "s3cret"}

\* The keys senders sign with: none, the shared secret, a guessed one.
SenderKeys == {"", "s3cret", "guess"}

\* sendWebhook of test-webhook.js: the header is set when the sender has a
\* key, to the digest of the body it sends.
SignatureHeader(key, body) ==
    IF key = "" THEN undefined ELSE Hmac(key, Stringify(body))

\* Faulty variant: a request without the header is let through.
verifyWebhookSignature_HeaderOptional(secret, signature, body) ==
    IF secret = "" \/ ~Truthy(signature) THEN TRUE
    ELSE Hmac(secret, Stringify(body)) = signature

\* Faulty variant: without a secret every request is refused.
verifyWebhookSignature_FailClosed(secret, signature, body) ==
    IF secret = "" THEN FALSE
    ELSE IF ~Truthy(signature) THEN FALSE
    ELSE Hmac(secret, Stringify(body)) = signature

\* verifyWebhookSignature(req)
verifyWebhookSignature(secret, signature, body) ==
    IF secret = "" THEN TRUE
    ELSE IF ~Truthy(signature) THEN FALSE
    ELSE Hmac(secret, Stringify(body)) = signature

(***************************************************************************)
(* Payload normalisation, as each handler does it.                         *)
(***************************************************************************)
\* Faulty variant: the chain read from its last candidate.
ContactEmailSG_DataFirst(body) ==
    Or(Or(Opt(body.data, "email"), Opt(body.contact, "email")), body.email)

\* email || contact?.email || data?.email
ContactEmailSG(body) ==
    Or(Or(body.email, Opt(body.contact, "email")), Opt(body.data, "email"))

\* to_email || sl_lead_email
ContactEmailSL(body) == Or(body.to_email, body.sl_lead_email)

contactEmail(endpoint, body) ==
    IF endpoint = "salesgodscrm" THEN ContactEmailSG(body) ELSE ContactEmailSL(body)

\* The three-place fallback of one contactInfo member.
Fallback(body, f) == Or(Or(body[f], Opt(body.contact, f)), Opt(body.data, f))

ContactInfoSG(body) ==
    [firstName |-> Fallback(body, "firstName"),
     lastName  |-> Fallback(body, "lastName"),
     phone     |-> Fallback(body, "phoneNumber"),
     company   |-> Fallback(body, "company")]

\* s.split(' '): the pieces between the spaces, empty pieces included.
RECURSIVE Split(_)
Split(s) ==
    IF \A i \in 1..Len(s) : s[i] # " " THEN <<s>>
    ELSE LET k == CHOOSE i \in 1..Len(s) :
                      s[i] = " " /\ \A j \in 1..(i - 1) : s[j] # " "
         IN  <<SubSeq(s, 1, k - 1)>> \o Split(SubSeq(s, k + 1, Len(s)))

\* parts.join(' ')
RECURSIVE Join(_)
Join(parts) ==
    IF parts = <<>> THEN <<>>
    ELSE IF Len(parts) = 1 THEN parts[1]
    ELSE parts[1] \o <<" ">> \o Join(Tail(parts))

\* to_name ? to_name.split(' ') : []
NameParts(to_name) == IF Truthy(to_name) THEN Split(to_name.v) ELSE <<>>

\* x || null for a string x
OrNull(s) == IF s # <<>> THEN Str(s) ELSE null

\* Faulty variant: lastName is the last piece alone.
ContactInfoSL_LastToken(body) ==
    LET nameParts == NameParts(body.to_name)
    IN  [firstName |-> IF nameParts = <<>> THEN null ELSE OrNull(nameParts[1]),
         lastName  |-> IF Len(nameParts) < 2 THEN null
                       ELSE OrNull(nameParts[Len(nameParts)]),
         phone     |-> null,
         company   |-> null]

\* contactInfo of the Smartlead handler, lines 323-329
ContactInfoSL(body) ==
    LET nameParts == NameParts(body.to_name)
    IN  [firstName |-> IF nameParts = <<>> THEN null ELSE OrNull(nameParts[1]),
         lastName  |-> IF nameParts = <<>> THEN null ELSE OrNull(Join(Tail(nameParts))),
         phone     |-> null,
         company   |-> null]

contactInfo(endpoint, body) ==
    IF endpoint = "salesgodscrm" THEN ContactInfoSG(body) ELSE ContactInfoSL(body)

\* to_name.split(' ') throws a TypeError when to_name is truthy and no string.
SplitThrows(endpoint, body) ==
    endpoint = "smartlead" /\ Truthy(body.to_name) /\ body.to_name.t # "string"

\* const { ..., id: sgcrmId, ... } = req.body  (the Smartlead handler has none)
sgcrmId(endpoint, body) ==
    IF endpoint = "salesgodscrm" THEN body.id ELSE undefined

\* contactInfo member -> HubSpot property
InfoFields == {"firstName", "lastName", "phone", "company"}

PropertyOf(f) ==
    CASE f = "firstName" -> "firstname"
      [] f = "lastName"  -> "lastname"
      [] f = "phone"     -> "phone"
      [] f = "company"   -> "company"

FieldOf(p) == CHOOSE f \in InfoFields : PropertyOf(f) = p

FillProperties == {"firstname", "lastname", "phone", "company"}

PropertyNames ==
    {"email", "source_system", "salesgodcrm_contact_id"} \cup FillProperties

SGCRM == Str(<<"SGCRM">>)

SmartleadEmailCampaign == Str(<<"Smartlead", " ", "Email", " ", "Campaign">>)

\* The label each handler writes into propertiesToUpdate.source_system.
SourceSystemLabel(endpoint) ==
    IF endpoint = "salesgodscrm" THEN SGCRM ELSE SmartleadEmailCampaign

\* A property map with no keys.
NoProperties == [p \in PropertyNames |-> undefined]

Keys(properties) == {p \in PropertyNames : properties[p] # undefined}

(***************************************************************************)
(* getOrCreateHubSpotContact: the property map of the create call.  The    *)
(* function is shared by both handlers and is not told which one called.   *)
(***************************************************************************)
CreateProperties(email, contactData) ==
    [p \in PropertyNames |->
        CASE p = "email" -> email
          [] p = "source_system" -> SGCRM
          [] p \in FillProperties ->
                IF Truthy(contactData[FieldOf(p)])
                THEN contactData[FieldOf(p)] ELSE undefined
          [] OTHER -> undefined]

(***************************************************************************)
(* The handlers' patch: source_system always, a contactInfo member when it *)
(* is truthy and properties?.<name>?.value of the resolved contact is      *)
(* falsy, and (SalesGodCRM only) the id when it is truthy.                 *)
(***************************************************************************)
\* Faulty variant: one label for both endpoints.
PropertiesToUpdate_OneLabel(endpoint, info, properties, id) ==
    [p \in PropertyNames |->
        CASE p = "source_system" -> SGCRM
          [] p \in FillProperties ->
                IF Truthy(info[FieldOf(p)]) /\ ~Truthy(DotValue(properties[p]))
                THEN info[FieldOf(p)] ELSE undefined
          [] p = "salesgodcrm_contact_id" ->
                IF endpoint = "salesgodscrm" /\ Truthy(id) THEN id ELSE undefined
          [] OTHER -> undefined]

\* Variant: the guard reads the property itself, not its value member.
PropertiesToUpdate_PlainRead(endpoint, info, properties, id) ==
    [p \in PropertyNames |->
        CASE p = "source_system" -> SourceSystemLabel(endpoint)
          [] p \in FillProperties ->
                IF Truthy(info[FieldOf(p)]) /\ ~Truthy(properties[p])
                THEN info[FieldOf(p)] ELSE undefined
          [] p = "salesgodcrm_contact_id" ->
                IF endpoint = "salesgodscrm" /\ Truthy(id) THEN id ELSE undefined
          [] OTHER -> undefined]

\* Faulty variant: of the four members only firstName is considered.
PropertiesToUpdate_FirstNameOnly(endpoint, info, properties, id) ==
    [p \in PropertyNames |->
        CASE p = "source_system" -> SourceSystemLabel(endpoint)
          [] p = "firstname" ->
                IF Truthy(info.firstName) /\ ~Truthy(DotValue(properties[p]))
                THEN info.firstName ELSE undefined
          [] p = "salesgodcrm_contact_id" ->
                IF endpoint = "salesgodscrm" /\ Truthy(id) THEN id ELSE undefined
          [] OTHER -> undefined]

PropertiesToUpdate(endpoint, info, properties, id) ==
    [p \in PropertyNames |->
        CASE p = "source_system" -> SourceSystemLabel(endpoint)
          [] p \in FillProperties ->
                IF Truthy(info[FieldOf(p)]) /\ ~Truthy(DotValue(properties[p]))
                THEN info[FieldOf(p)] ELSE undefined
          [] p = "salesgodcrm_contact_id" ->
                IF endpoint = "salesgodscrm" /\ Truthy(id) THEN id ELSE undefined
          [] OTHER -> undefined]

\* action of the response, and action of the audit log
\* Faulty variants: the branches of the conditional exchanged.
ResponseAction_Swapped(found) == IF found THEN "created" ELSE "updated"

ResponseAction(found) == IF found THEN "updated" ELSE "created"

AuditAction_Swapped(found) == IF found THEN "created_new" ELSE "updated_existing"

AuditAction(found) == IF found THEN "updated_existing" ELSE "created_new"

\* source_system of the audit log
AuditSourceSystem(endpoint) ==
    IF endpoint = "salesgodscrm" THEN SGCRM ELSE Str(<<"Smartlead">>)

(***************************************************************************)
(* The CRM.  contacts[i] is the contact with hs_object_id i.  The calls go *)
(* to /crm/v3/objects/contacts..., whose responses carry each property as  *)
(* a plain string ("properties": {"firstname": "Test"}), not as an object  *)
(* with a value member.                                                    *)
(***************************************************************************)
\* The properties member of a search result or of a create response.
ApiProperties(contact) == contact.properties

\* Faulty variant: the filter matches nothing.
SearchResults_NoMatch(store, email) == <<>>

\* filter email EQ value, sorts -hs_object_id, limit 1
SearchResults(store, email) ==
    LET hits == {i \in 1..Len(store) : store[i].properties.email = email}
    IN  IF hits = {} THEN <<>>
        ELSE <<CHOOSE i \in hits : \A j \in hits : j <= i>>

\* PATCH /crm/v3/objects/contacts/{id}: the given properties are set.
Patched(contact, propertiesToUpdate) ==
    [contact EXCEPT !.properties =
        [p \in PropertyNames |->
            IF propertiesToUpdate[p] # undefined
            THEN propertiesToUpdate[p] ELSE contact.properties[p]]]

NoAuditLog ==
    [action |-> "", source_system |-> undefined, email |-> undefined,
     hubspot_contact_id |-> 0, properties_updated |-> {}]

(***************************************************************************)
(* State.                                                                  *)
(*   WEBHOOK_SECRET  the configured secret ("" when unset)                 *)
(*   contacts        the CRM's contact store                               *)
(*   req             the requests, in order of arrival; of request r:      *)
(*     payload  the name of req.body (BodyOf); key: what the sender signed *)
(*              it with (SignatureHeader)                                  *)
(*     pc       "new" (not yet delivered), "search" / "create" / "update"  *)
(*              (awaiting that CRM call), "done" (response sent)           *)
(*     status   the HTTP status of the response, 0 before it is sent       *)
(*     found, contactId, properties   hubspotContact                       *)
(*     calls    the CRM calls issued so far; failed: the one that threw    *)
(*     doneAtStart, unseen   history: the requests already answered, and   *)
(*              whether the CRM held no contact with the request's email,  *)
(*              when this one arrived                                      *)
(*   sample          a body put through the handler's normalisation alone  *)
(*                   (NormalizerSpec); no part of the requests above       *)
(***************************************************************************)
VARIABLES WEBHOOK_SECRET, contacts, req, sample

vars == <<WEBHOOK_SECRET, contacts, req, sample>>

NewRequest ==
    [pc |-> "new", endpoint |-> "salesgodscrm", payload |-> "", key |-> "",
     status |-> 0,
     found |-> FALSE, contactId |-> 0, properties |-> NoProperties,
     propertiesToUpdate |-> NoProperties,
     action |-> "", auditLog |-> NoAuditLog,
     calls |-> <<>>, failed |-> "",
     doneAtStart |-> {}, unseen |-> FALSE]

\* No body under normalisation.
NoSample ==
    [pc |-> "none", endpoint |-> "salesgodscrm", body |-> EmptyBody,
     contactEmail |-> undefined,
     contactInfo |-> [f \in InfoFields |-> undefined]]

Init ==
    /\ WEBHOOK_SECRET \in Secrets
    /\ contacts = <<>>
    /\ req = [r \in Requests |-> NewRequest]
    /\ sample = NoSample

\* req.body and req.headers['x-webhook-signature'] of a request
body(q) == BodyOf(q.payload)

signature(q) == SignatureHeader(q.key, BodyOf(q.payload))

\* res.status(code).json(...) with no CRM call pending
Respond(q, code) == [q EXCEPT !.pc = "done", !.status = code]

\* Faulty variant: the error is logged and the request answered 200.
Catch_Swallowed(q, op) == [q EXCEPT !.pc = "done", !.status = 200, !.failed = op]

\* Faulty variant: the call that threw is issued again.
Catch_Retry(q, op) == [q EXCEPT !.calls = Append(q.calls, op)]

\* Faulty variant: the error is logged and nothing is sent.
Catch_NoResponse(q, op) == [q EXCEPT !.pc = "catch", !.failed = op]

\* The catch block of the handler, reached from a CRM call that threw.
Catch(q, op) == [q EXCEPT !.pc = "done", !.status = 500, !.failed = op]

\* From hubspotContact to the update call: lines 213-242 and 333-357.
BuildPatch(q, found, contactId, properties) ==
    [q EXCEPT !.pc = "update",
              !.found = found,
              !.contactId = contactId,
              !.properties = properties,
              !.propertiesToUpdate =
                  PropertiesToUpdate(q.endpoint, contactInfo(q.endpoint, body(q)),
                                     properties, sgcrmId(q.endpoint, body(q))),
              !.calls = Append(q.calls, "update")]

\* After the update call: the audit log and the 200 response.
Success(q) ==
    [q EXCEPT !.pc = "done", !.status = 200,
              !.action = ResponseAction(q.found),
              !.auditLog =
                  [action |-> AuditAction(q.found),
                   source_system |-> AuditSourceSystem(q.endpoint),
                   email |-> contactEmail(q.endpoint, body(q)),
                   hubspot_contact_id |-> q.contactId,
                   properties_updated |-> Keys(q.propertiesToUpdate)]]

\* The handler from the arrival of the request to its first await.
Arrive(q, secret) ==
    IF ~verifyWebhookSignature(secret, signature(q), body(q)) THEN Respond(q, 401)
    ELSE IF ~Truthy(contactEmail(q.endpoint, body(q))) THEN Respond(q, 400)
    ELSE IF SplitThrows(q.endpoint, body(q)) THEN Respond(q, 500)
    ELSE [q EXCEPT !.pc = "search", !.calls = <<"search">>]

\* A request with the given payload, signed with the given key, is
\* delivered to one of the two endpoints.
Deliver(r, endpoint, payload, key) ==
    /\ req[r].pc = "new"
    /\ \A q \in 1..(r - 1) : req[q].pc # "new"
    /\ req' = [req EXCEPT ![r] =
                    Arrive([req[r] EXCEPT
                              !.endpoint = endpoint,
                              !.payload = payload,
                              !.key = key,
                              !.doneAtStart = {q \in Requests : req[q].pc = "done"},
                              !.unseen = SearchResults(contacts,
                                            contactEmail(endpoint, BodyOf(payload))) = <<>>],
                           WEBHOOK_SECRET)]
    /\ UNCHANGED <<WEBHOOK_SECRET, contacts, sample>>

\* The search returns a contact: hubspotContact is that contact.
SearchFound(r) ==
    /\ req[r].pc = "search"
    /\ LET results == SearchResults(contacts, contactEmail(req[r].endpoint, body(req[r])))
       IN  /\ results # <<>>
           /\ req' = [req EXCEPT ![r] =
                        BuildPatch(req[r], TRUE, results[1],
                                   ApiProperties(contacts[results[1]]))]
    /\ UNCHANGED <<WEBHOOK_SECRET, contacts, sample>>

\* Faulty variant: the create call is issued whatever the search returned.
SearchEmpty_Unguarded(r) ==
    /\ req[r].pc = "search"
    /\ req' = [req EXCEPT ![r].pc = "create",
                          ![r].calls = Append(req[r].calls, "create")]
    /\ UNCHANGED <<WEBHOOK_SECRET, contacts, sample>>

\* The search returns nothing: the create call is issued.
SearchEmpty(r) ==
    /\ req[r].pc = "search"
    /\ SearchResults(contacts, contactEmail(req[r].endpoint, body(req[r]))) = <<>>
    /\ req' = [req EXCEPT ![r].pc = "create",
                          ![r].calls = Append(req[r].calls, "create")]
    /\ UNCHANGED <<WEBHOOK_SECRET, contacts, sample>>

SearchFails(r) ==
    /\ req[r].pc = "search"
    /\ req' = [req EXCEPT ![r] = Catch(req[r], "search")]
    /\ UNCHANGED <<WEBHOOK_SECRET, contacts, sample>>

\* The create call succeeds: the CRM holds a new contact.
CreateOk(r) ==
    /\ req[r].pc = "create"
    /\ LET created == [properties |->
                          CreateProperties(contactEmail(req[r].endpoint, body(req[r])),
                                           contactInfo(req[r].endpoint, body(req[r]))),
                       createdBy |-> r]
       IN  /\ contacts' = Append(contacts, created)
           /\ req' = [req EXCEPT ![r] =
                        BuildPatch(req[r], FALSE, Len(contacts) + 1,
                                   ApiProperties(created))]
    /\ UNCHANGED <<WEBHOOK_SECRET, sample>>

CreateFails(r) ==
    /\ req[r].pc = "create"
    /\ req' = [req EXCEPT ![r] = Catch(req[r], "create")]
    /\ UNCHANGED <<WEBHOOK_SECRET, contacts, sample>>

\* The update call succeeds: the patch is applied and 200 is sent.
UpdateOk(r) ==
    /\ req[r].pc = "update"
    /\ contacts' = [contacts EXCEPT ![req[r].contactId] =
                       Patched(contacts[req[r].contactId], req[r].propertiesToUpdate)]
    /\ req' = [req EXCEPT ![r] = Success(req[r])]
    /\ UNCHANGED <<WEBHOOK_SECRET, sample>>

UpdateFails(r) ==
    /\ req[r].pc = "update"
    /\ req' = [req EXCEPT ![r] = Catch(req[r], "update")]
    /\ UNCHANGED <<WEBHOOK_SECRET, contacts, sample>>

\* A delivery by a sender configured with the receiver's secret.
Receive(r) ==
    \E endpoint \in Endpoints : \E payload \in Payloads(endpoint) :
        Deliver(r, endpoint, payload, WEBHOOK_SECRET)

\* A delivery by any sender: unsigned, signed with the secret, or forged.
ReceiveAny(r) ==
    \E endpoint \in Endpoints : \E payload \in OpenPayloads(endpoint) :
    \E key \in SenderKeys :
        Deliver(r, endpoint, payload, key)

Next ==
    \E r \in Requests :
        \/ Receive(r)
        \/ SearchFound(r)
        \/ SearchEmpty(r)
        \/ SearchFails(r)
        \/ CreateOk(r)
        \/ CreateFails(r)
        \/ UpdateOk(r)
        \/ UpdateFails(r)

Spec == Init /\ [][Next]_vars

\* The same system open to every sender.
OpenNext ==
    \E r \in Requests :
        \/ ReceiveAny(r)
        \/ SearchFound(r)
        \/ SearchEmpty(r)
        \/ SearchFails(r)
        \/ CreateOk(r)
        \/ CreateFails(r)
        \/ UpdateOk(r)
        \/ UpdateFails(r)

OpenSpec == Init /\ [][OpenNext]_vars

\* The CRM call request r awaits returns a result or throws.
Returns(r) ==
    \/ SearchFound(r)
    \/ SearchEmpty(r)
    \/ SearchFails(r)
    \/ CreateOk(r)
    \/ CreateFails(r)
    \/ UpdateOk(r)
    \/ UpdateFails(r)

\* The deliveries of the system below: endpoint, payload and sender's key.
\* One per way through a handler: to the CRM on either endpoint, no email,
\* a to_name that makes split throw, and a forged signature.
LiveDeliveries ==
    {<<"salesgodscrm", "testPayload1", "s3cret">>,
     <<"salesgodscrm", "noEmail", "s3cret">>,
     <<"smartlead", "solo", "s3cret">>,
     <<"smartlead", "toNameNumber", "s3cret">>,
     <<"smartlead", "solo", "guess">>}

LiveInit ==
    /\ WEBHOOK_SECRET = "s3cret"
    /\ contacts = <<>>
    /\ req = [r \in Requests |-> NewRequest]
    /\ sample = NoSample

LiveReceive(r) ==
    \E d \in LiveDeliveries : Deliver(r, d[1], d[2], d[3])

LiveNext ==
    \E r \in Requests :
        \/ LiveReceive(r)
        \/ SearchFound(r)
        \/ SearchEmpty(r)
        \/ SearchFails(r)
        \/ CreateOk(r)
        \/ CreateFails(r)
        \/ UpdateOk(r)
        \/ UpdateFails(r)

\* The system in which no CRM call stays pending for ever: the axios
\* promise a handler awaits is settled and the event loop resumes the
\* handler.  Nothing obliges a sender to deliver.
LiveSpec ==
    /\ LiveInit
    /\ [][LiveNext]_vars
    /\ \A r \in Requests : WF_vars(Returns(r))

\* The same system with a sender that delivers a request only when every
\* request before it has been answered: no two handlers overlap.
SequentialReceive(r) ==
    /\ \A q \in Requests : req[q].pc \in {"new", "done"}
    /\ Receive(r)

SequentialNext ==
    \E r \in Requests :
        \/ SequentialReceive(r)
        \/ SearchFound(r)
        \/ SearchEmpty(r)
        \/ SearchFails(r)
        \/ CreateOk(r)
        \/ CreateFails(r)
        \/ UpdateOk(r)
        \/ UpdateFails(r)

SequentialSpec == Init /\ [][SequentialNext]_vars

(***************************************************************************)
(* The normalisation of the handlers on its own: one body goes from the    *)
(* destructuring of req.body through the email check to contactInfo.  The  *)
(* bodies are every combination of email candidates, and every to_name of  *)
(* at most MaxLen symbols.                                                 *)
(***************************************************************************)
\* Longest to_name, in symbols.
MaxLen == 5

\* The values of an email member: absent, null, empty, and two non-empty
\* strings, of which one is no address.
EmailValues ==
    {undefined, null, Str(<<>>), Email1, Str(<<"not", " ", "an", " ", "address">>)}

\* A contact or data sub-object: absent, or present with an email member.
EmailObjects ==
    {NoObject} \cup
    {[NoObject EXCEPT !.present = TRUE, !.email = e] : e \in EmailValues}

Symbols == {"Jane", "Mary", "Doe", " "}

\* to_name: absent, null, a number, or a string of at most MaxLen symbols.
NameValues ==
    {undefined, null, Num(<<"7">>)} \cup
    {Str(s) : s \in UNION {[1..n -> Symbols] : n \in 0..MaxLen}}

SampleBodies(endpoint) ==
    IF endpoint = "salesgodscrm"
    THEN {[EmptyBody EXCEPT !.email = e, !.contact = c, !.data = d] :
              e \in EmailValues, c \in EmailObjects, d \in EmailObjects}
    ELSE {[EmptyBody EXCEPT !.to_email = e, !.sl_lead_email = l] :
              e \in EmailValues, l \in EmailValues}
         \cup {[EmptyBody EXCEPT !.to_email = Email1, !.to_name = n] :
                  n \in NameValues}

NormalizerInit ==
    /\ WEBHOOK_SECRET = ""
    /\ contacts = <<>>
    /\ req = [r \in Requests |-> NewRequest]
    /\ \E endpoint \in Endpoints : \E b \in SampleBodies(endpoint) :
           sample = [NoSample EXCEPT !.pc = "body", !.endpoint = endpoint, !.body = b]

\* Lines 190-210 and 307-329: 400 without an email, else contactInfo; the
\* TypeError of to_name.split ends in the catch block.
Normalize ==
    /\ sample.pc = "body"
    /\ sample' =
          LET email == contactEmail(sample.endpoint, sample.body)
          IN  IF ~Truthy(email) THEN [sample EXCEPT !.pc = "400"]
              ELSE IF SplitThrows(sample.endpoint, sample.body)
                   THEN [sample EXCEPT !.pc = "500", !.contactEmail = email]
              ELSE [sample EXCEPT !.pc = "contactInfo",
                                  !.contactEmail = email,
                                  !.contactInfo =
                                      contactInfo(sample.endpoint, sample.body)]
    /\ UNCHANGED <<WEBHOOK_SECRET, contacts, req>>

NormalizerNext == Normalize

NormalizerSpec == NormalizerInit /\ [][NormalizerNext]_vars

(***************************************************************************)
(* Properties.                                                             *)
(***************************************************************************)
\* Request r has issued the CRM call op.
Issued(r, op) == \E i \in 1..Len(req[r].calls) : req[r].calls[i] = op

Body(r) == BodyOf(req[r].payload)

Email(r) == contactEmail(req[r].endpoint, Body(r))

Info(r) == contactInfo(req[r].endpoint, Body(r))

\* C1 (no-overwrite): when the search found a contact, a property among
\* firstname, lastname, phone, company that is non-empty on the contact
\* returned is absent from the patch passed to updateHubSpotContact.
C1_NoOverwrite ==
    \A r \in Requests :
        Issued(r, "update") /\ req[r].found =>
            \A p \in FillProperties :
                Truthy(req[r].properties[p]) =>
                    req[r].propertiesToUpdate[p] = undefined

\* C2: every patch passed to updateHubSpotContact carries source_system,
\* set to 'SGCRM' on /webhook/salesgodscrm and to 'Smartlead Email Campaign'
\* on /webhook/smartlead, so the patch is never empty.
C2_SourceSystemAlways ==
    \A r \in Requests :
        Issued(r, "update") =>
            /\ "source_system" \in Keys(req[r].propertiesToUpdate)
            /\ req[r].endpoint = "salesgodscrm" =>
                   req[r].propertiesToUpdate.source_system = Str(<<"SGCRM">>)
            /\ req[r].endpoint = "smartlead" =>
                   req[r].propertiesToUpdate.source_system =
                       Str(<<"Smartlead", " ", "Email", " ", "Campaign">>)

\* A Smartlead request at the update step whose patch holds source_system
\* and nothing else.
C2_Witness ==
    \E r \in Requests :
        /\ req[r].pc = "update"
        /\ req[r].endpoint = "smartlead"
        /\ Keys(req[r].propertiesToUpdate) = {"source_system"}

\* C3: a request whose search found nothing and whose create and update
\* succeeded answers action 'created', and its patch holds source_system
\* and every contactInfo member that is non-empty, with that value.
C3_CreatedPatchComplete ==
    \A r \in Requests :
        req[r].status = 200 /\ req[r].calls = <<"search", "create", "update">> =>
            /\ req[r].action = "created"
            /\ "source_system" \in Keys(req[r].propertiesToUpdate)
            /\ LET info == Info(r)
               IN  \A f \in InfoFields :
                       Truthy(info[f]) =>
                           req[r].propertiesToUpdate[PropertyOf(f)] = info[f]

\* A created contact whose payload carried all four members.
C3_Witness ==
    \E r \in Requests :
        /\ req[r].status = 200
        /\ req[r].calls = <<"search", "create", "update">>
        /\ \A f \in InfoFields : Truthy(Info(r)[f])
        /\ FillProperties \subseteq Keys(req[r].propertiesToUpdate)

\* Requests a and b are two sequential deliveries of one payload for an
\* email the CRM did not hold: every earlier request was answered when a
\* arrived, a was answered 200 when b arrived, b is the next request, and
\* b was answered 200 too.
SequentialPair(a, b) ==
    /\ b = a + 1
    /\ req[a].status = 200 /\ req[b].status = 200
    /\ req[a].endpoint = req[b].endpoint
    /\ req[a].payload = req[b].payload
    /\ req[a].unseen
    /\ req[a].doneAtStart = 1..(a - 1)
    /\ a \in req[b].doneAtStart

\* C4 as claimed: the first answers 'created', the second 'updated', and
\* the property names of the second patch are a strict subset of those of
\* the first.
C4_StrictSubset ==
    \A a, b \in Requests :
        SequentialPair(a, b) =>
            /\ req[a].action = "created"
            /\ req[b].action = "updated"
            /\ Keys(req[b].propertiesToUpdate) \subseteq Keys(req[a].propertiesToUpdate)
            /\ Keys(req[b].propertiesToUpdate) # Keys(req[a].propertiesToUpdate)

\* C4 as amended: the first answers 'created', the second 'updated', and
\* the property names of the second patch are a subset of those of the
\* first, not necessarily a strict one.
C4_Subset ==
    \A a, b \in Requests :
        SequentialPair(a, b) =>
            /\ req[a].action = "created"
            /\ req[b].action = "updated"
            /\ Keys(req[b].propertiesToUpdate) \subseteq Keys(req[a].propertiesToUpdate)

\* Test 1 then Test 2 of test-webhook.js with one payload: both answered.
C4_Witness ==
    \E a, b \in Requests :
        /\ SequentialPair(a, b)
        /\ Body(a) = TestPayload1
        /\ req[b].action = "updated"

\* The email candidates of the endpoint's fallback chain.
EmailCandidates(r) ==
    IF req[r].endpoint = "salesgodscrm"
    THEN {Body(r).email, Opt(Body(r).contact, "email"), Opt(Body(r).data, "email")}
    ELSE {Body(r).to_email, Body(r).sl_lead_email}

\* C5 (missing identity): a request that passed the signature gate and has
\* no non-empty string among its email candidates is answered 400 and
\* issues no CRM call.
C5_MissingIdentity ==
    \A r \in Requests :
        /\ req[r].pc # "new"
        /\ req[r].status # 401
        /\ \A c \in EmailCandidates(r) : ~NonEmptyString(c)
        => req[r].status = 400 /\ req[r].calls = <<>>

\* The x-webhook-signature header of request r is absent, or is not the
\* hex HMAC-SHA256 of the serialized body under the configured secret.
BadSignature(r) ==
    \/ signature(req[r]) = undefined
    \/ signature(req[r]) # Hmac(WEBHOOK_SECRET, Stringify(Body(r)))

\* C6 (signature gate): with WEBHOOK_SECRET configured, a request whose
\* signature header is absent or wrong is answered 401 and issues no CRM
\* call, whether or not its email is missing.
C6_SignatureGate ==
    WEBHOOK_SECRET # "" =>
        \A r \in Requests :
            req[r].pc # "new" /\ BadSignature(r) =>
                req[r].status = 401 /\ req[r].calls = <<>>

\* A forged request without any email, answered 401 and not 400.
C6_Witness ==
    \E r \in Requests :
        /\ WEBHOOK_SECRET # ""
        /\ signature(req[r]) # undefined /\ BadSignature(r)
        /\ ~Truthy(Email(r))
        /\ req[r].status = 401

\* C7 (no failure swallowed): a request one of whose CRM calls failed is
\* answered 500; a request is answered 200 only if it passed the signature
\* gate, had an email, and its search, its create (when issued) and its one
\* update call all succeeded.
C7_NoFailureSwallowed ==
    \A r \in Requests :
        /\ req[r].failed # "" => req[r].pc = "done" /\ req[r].status = 500
        /\ req[r].status = 200 =>
              /\ WEBHOOK_SECRET = "" \/ ~BadSignature(r)
              /\ Truthy(Email(r))
              /\ req[r].failed = ""
              /\ req[r].calls \in {<<"search", "update">>,
                                   <<"search", "create", "update">>}
              /\ req[r].contactId \in 1..Len(contacts)

\* A request whose create succeeded and whose update failed, answered 500.
C7_Witness ==
    \E r \in Requests :
        /\ req[r].failed = "update"
        /\ req[r].calls = <<"search", "create", "update">>
        /\ req[r].status = 500

\* C8 as claimed: on success the audit log's action is 'updated' when the
\* contact was found and 'created' when it was created, and the response's
\* action is that same value.
C8_AuditActionEqualsResponse ==
    \A r \in Requests :
        req[r].status = 200 =>
            /\ req[r].auditLog.action \in {"created", "updated"}
            /\ req[r].auditLog.action = (IF req[r].found THEN "updated" ELSE "created")
            /\ req[r].action = req[r].auditLog.action

\* C8 as amended: on success the response's action is 'updated' when the
\* contact was found and 'created' when it was created, and the audit log's
\* action is 'updated_existing' and 'created_new' respectively.
C8_AuditActionCorresponds ==
    \A r \in Requests :
        req[r].status = 200 =>
            /\ req[r].action = (IF req[r].found THEN "updated" ELSE "created")
            /\ req[r].auditLog.action =
                   (IF req[r].found THEN "updated_existing" ELSE "created_new")

\* One success of each kind.
C8_Witness ==
    \E a, b \in Requests :
        /\ req[a].status = 200 /\ ~req[a].found
        /\ req[b].status = 200 /\ req[b].found

\* C9 (provenance at creation): every contact this system created carries
\* the email, and the source_system label of the endpoint whose request
\* created it.
C9_ProvenanceAtCreation ==
    \A i \in 1..Len(contacts) :
        /\ "email" \in Keys(contacts[i].properties)
        /\ req[contacts[i].createdBy].endpoint = "salesgodscrm" =>
               contacts[i].properties.source_system = Str(<<"SGCRM">>)
        /\ req[contacts[i].createdBy].endpoint = "smartlead" =>
               contacts[i].properties.source_system =
                   Str(<<"Smartlead", " ", "Email", " ", "Campaign">>)

\* Request r created a contact and its update call then failed.
CreatedThenUpdateFailed(r) ==
    req[r].failed = "update" /\ req[r].calls = <<"search", "create", "update">>

\* No update call of another request has been applied to the contact of r.
Untouched(r) ==
    \A q \in Requests \ {r} :
        ~(req[q].status = 200 /\ req[q].contactId = req[r].contactId)

\* C10 (partial failure not masked): when the create succeeded and the
\* update failed, the request is answered 500 after exactly those calls, the
\* contact stays in the CRM as the create call wrote it, and a re-delivery
\* of the payload that starts afterwards and gets past its search has found
\* a contact with that email and, answered 200, reports 'updated'.
C10_PartialFailure ==
    \A r \in Requests :
        CreatedThenUpdateFailed(r) =>
            /\ req[r].status = 500
            /\ req[r].contactId \in 1..Len(contacts)
            /\ contacts[req[r].contactId].createdBy = r
            /\ Untouched(r) =>
                   contacts[req[r].contactId].properties =
                       CreateProperties(Email(r), Info(r))
            /\ \A q \in Requests :
                  /\ r \in req[q].doneAtStart
                  /\ req[q].endpoint = req[r].endpoint
                  /\ req[q].payload = req[r].payload
                  /\ req[q].pc \in {"update", "done"}
                  /\ req[q].failed # "search"
                  => /\ req[q].found
                     /\ req[q].calls = <<"search", "update">>
                     /\ contacts[req[q].contactId].properties.email = Email(r)
                     /\ req[q].contactId >= req[r].contactId
                     /\ req[q].status = 200 => req[q].action = "updated"

\* The re-delivery after a failed update, answered 200.
C10_Witness ==
    \E r, q \in Requests :
        /\ CreatedThenUpdateFailed(r)
        /\ r \in req[q].doneAtStart
        /\ req[q].payload = req[r].payload
        /\ req[q].endpoint = req[r].endpoint
        /\ req[q].contactId = req[r].contactId
        /\ req[q].status = 200

\* Request r got no match from its search and its create call succeeded.
Created(r) ==
    /\ req[r].pc \in {"update", "done"}
    /\ ~req[r].found
    /\ Issued(r, "create")
    /\ req[r].failed # "create"

\* C11 (duplicate-creation race): nothing makes the search and the create
\* of a request one step.  Two requests for one email that both got no
\* match and both created hold two different contacts, each created by its
\* request and carrying that email, and each answers 'created' on success;
\* this happens only under interleaving: neither request was answered
\* before the other arrived.
C11_DuplicateCreation ==
    \A a, b \in Requests :
        a # b /\ Created(a) /\ Created(b) /\ Email(a) = Email(b) =>
            /\ req[a].contactId # req[b].contactId
            /\ \A r \in {a, b} :
                  /\ req[r].contactId \in 1..Len(contacts)
                  /\ contacts[req[r].contactId].createdBy = r
                  /\ contacts[req[r].contactId].properties.email = Email(r)
                  /\ req[r].status = 200 => req[r].action = "created"
            /\ a \notin req[b].doneAtStart
            /\ b \notin req[a].doneAtStart

\* Two contacts with one email, and both requests answered 'created'.
C11_Witness ==
    \E a, b \in Requests :
        /\ a # b /\ Email(a) = Email(b)
        /\ req[a].status = 200 /\ req[a].action = "created"
        /\ req[b].status = 200 /\ req[b].action = "created"
        /\ Len(contacts) = 2
        /\ contacts[1].properties.email = contacts[2].properties.email

\* The email candidates of a body, in the order of the endpoint's chain.
CandidatesInOrder(endpoint, b) ==
    IF endpoint = "salesgodscrm"
    THEN <<b.email, Opt(b.contact, "email"), Opt(b.data, "email")>>
    ELSE <<b.to_email, b.sl_lead_email>>

\* C12 (email extraction): the email a handler uses is the first non-empty
\* candidate in the order email, contact.email, data.email on
\* /webhook/salesgodscrm and to_email, sl_lead_email on /webhook/smartlead;
\* any non-empty string is taken, an address or not, and an earlier
\* non-empty candidate wins over every later one; without one the answer
\* is 400.
C12_FirstNonEmptyEmail ==
    sample.pc \notin {"none", "body"} =>
        LET c == CandidatesInOrder(sample.endpoint, sample.body)
            nonEmpty == {i \in 1..Len(c) : NonEmptyString(c[i])}
        IN  IF nonEmpty = {} THEN sample.pc = "400"
            ELSE /\ sample.pc # "400"
                 /\ \E i \in nonEmpty :
                       /\ \A j \in nonEmpty : i <= j
                       /\ sample.contactEmail = c[i]

\* email is "", contact.email is a non-empty string that is no address and
\* data.email an address: contact.email is taken.
C12_Witness ==
    /\ sample.pc = "contactInfo"
    /\ sample.endpoint = "salesgodscrm"
    /\ sample.body.email = Str(<<>>)
    /\ Opt(sample.body.contact, "email") = Str(<<"not", " ", "an", " ", "address">>)
    /\ Opt(sample.body.data, "email") = Email1
    /\ sample.contactEmail = Str(<<"not", " ", "an", " ", "address">>)

\* The position of the first space of s, Len(s) + 1 when it has none.
FirstSpace(s) ==
    IF \E i \in 1..Len(s) : s[i] = " "
    THEN CHOOSE i \in 1..Len(s) : s[i] = " " /\ \A j \in 1..(i - 1) : s[j] # " "
    ELSE Len(s) + 1

\* The name a piece of text stands for: null when it is empty.
TextOrNull(s) == IF s = <<>> THEN null ELSE Str(s)

\* C13 (name splitting): on /webhook/smartlead, for every string to_name,
\* firstName is the text before the first space and lastName all the text
\* after the first space, an empty text giving null; an absent to_name
\* gives null for both.
C13_NameSplit ==
    sample.pc = "contactInfo" /\ sample.endpoint = "smartlead" =>
        LET to_name == sample.body.to_name
        IN  /\ to_name \in {undefined, null} =>
                  /\ sample.contactInfo.firstName = null
                  /\ sample.contactInfo.lastName = null
            /\ to_name.t = "string" =>
                  /\ sample.contactInfo.firstName =
                         TextOrNull(SubSeq(to_name.v, 1, FirstSpace(to_name.v) - 1))
                  /\ sample.contactInfo.lastName =
                         TextOrNull(SubSeq(to_name.v, FirstSpace(to_name.v) + 1,
                                           Len(to_name.v)))

\* 'Jane Mary Doe' gives 'Jane' and 'Mary Doe'.
C13_Witness ==
    /\ sample.pc = "contactInfo"
    /\ sample.body.to_name = Str(<<"Jane", " ", "Mary", " ", "Doe">>)
    /\ sample.contactInfo.firstName = Str(<<"Jane">>)
    /\ sample.contactInfo.lastName = Str(<<"Mary", " ", "Doe">>)

\* The foreign id a payload carries: the SalesGodCRM contact id at the top
\* level, under contact or under data, and the Smartlead lead id.
ForeignId(endpoint, b) ==
    IF endpoint = "salesgodscrm"
    THEN Or(Or(b.id, Opt(b.contact, "id")), Opt(b.data, "id"))
    ELSE b.sl_email_lead_id

\* C14 (foreign-id propagation): when the payload carries a foreign id, in
\* whichever of the accepted places, the patch passed to the update call
\* holds that id, unchanged, in a custom property.
C14_ForeignIdPropagated ==
    \A r \in Requests :
        Issued(r, "update") /\ Truthy(ForeignId(req[r].endpoint, Body(r))) =>
            \E p \in PropertyNames \ ({"email", "source_system"} \cup FillProperties) :
                req[r].propertiesToUpdate[p] = ForeignId(req[r].endpoint, Body(r))

\* C15 (fail-open gate): with WEBHOOK_SECRET not configured the signature
\* check passes for every request on either endpoint, with or without the
\* x-webhook-signature header and whatever its value: no request is
\* answered 401, and one with an email goes on to the CRM search.
C15_FailOpen ==
    WEBHOOK_SECRET = "" =>
        \A r \in Requests :
            /\ req[r].pc # "new" =>
                   verifyWebhookSignature(WEBHOOK_SECRET, signature(req[r]), Body(r))
            /\ req[r].status # 401
            /\ req[r].pc # "new" /\ Truthy(Email(r)) => Issued(r, "search")

\* No secret configured: a request without the header and a request whose
\* header no secret of the receiver could have produced, both answered 200.
C15_Witness ==
    \E a, b \in Requests :
        /\ WEBHOOK_SECRET = ""
        /\ signature(req[a]) = undefined /\ req[a].status = 200
        /\ signature(req[b]) # undefined /\ req[b].status = 200

\* C16 (fill-gaps end to end): in every interleaving, once firstname,
\* lastname, phone or company of a contact holds a non-empty value, no
\* later update call changes it.
C16_NonEmptyStays ==
    [][\A i \in 1..Len(contacts) : \A p \in FillProperties :
           Truthy(contacts[i].properties[p]) =>
               contacts'[i].properties[p] = contacts[i].properties[p]]_vars

\* C17 (gaps filled): when the search found a contact, each of firstName,
\* lastName, phone, company that is non-empty in the normalised payload and
\* whose property is empty or absent on the contact returned is in the
\* patch passed to the update call, with the payload's value.
C17_GapsFilled ==
    \A r \in Requests :
        Issued(r, "update") /\ req[r].found =>
            LET info == Info(r)
            IN  \A f \in InfoFields :
                    Truthy(info[f]) /\ ~Truthy(req[r].properties[PropertyOf(f)]) =>
                        req[r].propertiesToUpdate[PropertyOf(f)] = info[f]

\* A contact found with its email alone, and a payload with all four
\* members: the update has filled them.
C17_Witness ==
    \E r \in Requests :
        /\ req[r].status = 200 /\ req[r].found
        /\ \A f \in InfoFields :
              /\ Truthy(Info(r)[f])
              /\ req[r].properties[PropertyOf(f)] = undefined
              /\ contacts[req[r].contactId].properties[PropertyOf(f)] = Info(r)[f]

\* The CRM call request r issues in this step, "" when it issues none.
IssuedNow(r) ==
    IF req'[r].calls = req[r].calls THEN ""
    ELSE req'[r].calls[Len(req'[r].calls)]

\* C18 (call protocol): a request issues at most one CRM call per step and
\* never takes one back; its calls are search, then create, then update:
\* the search comes first and once, the create follows a search that
\* returned nothing, the update follows a search or create of the same
\* request that succeeded, is issued at the moment that call returns, and
\* targets the contact that call returned; a request that was answered, or
\* one of whose calls failed, issues no call; so there are at most three.
C18_CallProtocol ==
    [][\A r \in Requests :
          /\ \/ req'[r].calls = req[r].calls
             \/ /\ Len(req'[r].calls) = Len(req[r].calls) + 1
                /\ SubSeq(req'[r].calls, 1, Len(req[r].calls)) = req[r].calls
          /\ Len(req'[r].calls) <= 3
          /\ IssuedNow(r) # "" => req[r].pc # "done" /\ req[r].failed = ""
          /\ IssuedNow(r) = "search" => req[r].calls = <<>>
          /\ IssuedNow(r) = "create" =>
                /\ req[r].calls = <<"search">>
                /\ SearchResults(contacts, Email(r)) = <<>>
          /\ IssuedNow(r) = "update" =>
                \/ /\ req[r].calls = <<"search">>
                   /\ SearchResults(contacts, Email(r)) = <<req'[r].contactId>>
                \/ /\ req[r].calls = <<"search", "create">>
                   /\ Len(contacts') = Len(contacts) + 1
                   /\ req'[r].contactId = Len(contacts')
                   /\ contacts'[Len(contacts')].createdBy = r
          /\ req[r].pc \in {"search", "create"} /\ req'[r].pc # req[r].pc =>
                \/ IssuedNow(r) # ""
                \/ req'[r].pc = "done" /\ req'[r].failed = req[r].pc
          /\ req[r].pc = "update" /\ req'[r].pc # "update" =>
                /\ IssuedNow(r) = ""
                /\ req'[r].pc = "done"
                /\ req'[r].contactId = req[r].contactId
                /\ req'[r].status = 200 =>
                      contacts' = [contacts EXCEPT ![req[r].contactId] =
                                      Patched(@, req[r].propertiesToUpdate)]
      ]_vars

\* One request with the three calls and one with two, both answered 200,
\* the second on the contact the first created.
C18_Witness ==
    \E a, b \in Requests :
        /\ req[a].calls = <<"search", "create", "update">> /\ req[a].status = 200
        /\ req[b].calls = <<"search", "update">> /\ req[b].status = 200
        /\ req[b].contactId = req[a].contactId

\* C19 (audit agrees with the patch): on every request answered 200, the
\* source_system of the audit log is the source_system of the patch that
\* was passed to the update call, and properties_updated is exactly the
\* set of the patch's keys.
C19_AuditAgreesWithPatch ==
    \A r \in Requests :
        req[r].status = 200 =>
            /\ req[r].auditLog.source_system = req[r].propertiesToUpdate.source_system
            /\ req[r].auditLog.properties_updated = Keys(req[r].propertiesToUpdate)

\* C20 (sequential uniqueness): when the requests are handled one at a
\* time, whatever CRM calls fail, no two contacts of the CRM have the same
\* email and no two requests with the same email are answered 'created'.
C20_SequentialUniqueness ==
    /\ \A i, j \in 1..Len(contacts) :
          i # j => contacts[i].properties.email # contacts[j].properties.email
    /\ \A a, b \in Requests :
          /\ a # b
          /\ req[a].status = 200 /\ req[a].action = "created"
          /\ req[b].status = 200 /\ req[b].action = "created"
          => Email(a) # Email(b)

\* One email on both endpoints: the first request created the contact and
\* failed in its update, the second found it and was answered 'updated'.
C20_Witness ==
    \E a, b \in Requests :
        /\ CreatedThenUpdateFailed(a)
        /\ req[b].endpoint # req[a].endpoint
        /\ Email(b) = Email(a)
        /\ req[b].status = 200 /\ req[b].action = "updated"
        /\ Len(contacts) = 1

\* Request r has been answered, with one of the four statuses.
Responded(r) == req[r].pc = "done" /\ req[r].status \in {200, 400, 401, 500}

\* C21 (exactly one response): when no CRM call stays pending for ever,
\* every request is, from some moment on, either not delivered at all or
\* answered, under every interleaving; a delivered request stays
\* delivered; a status is set only by the answer and is 200, 400, 401 or
\* 500; and once a request is answered its status never changes again and
\* it issues no further CRM call.
C21_ExactlyOneResponse ==
    /\ \A r \in Requests : <>[](req[r].pc = "new" \/ Responded(r))
    /\ [](\A r \in Requests :
             /\ req[r].status \in {0, 200, 400, 401, 500}
             /\ req[r].status # 0 <=> req[r].pc = "done")
    /\ [][\A r \in Requests :
             /\ req[r].pc # "new" => req'[r].pc # "new"
             /\ req[r].pc = "done" =>
                    /\ req'[r].pc = "done"
                    /\ req'[r].status = req[r].status
                    /\ req'[r].calls = req[r].calls]_vars

\* Two requests in flight together, answered 401 and 500: one stopped at
\* the signature gate, the other by a failed update on a contact it created.
C21_Witness ==
    \E a, b \in Requests :
        /\ req[a].status = 401 /\ req[a].calls = <<>>
        /\ req[b].status = 500 /\ req[b].failed = "update"
        /\ a \notin req[b].doneAtStart /\ b \notin req[a].doneAtStart

====
